---- MODULE Spec2Model ----
(***************************************************************************)
(* Model of the typing-test engine, src/typing_test.py (class TypingTest). *)
(* A Python str is a sequence of one-character strings; None is the empty  *)
(* sequence and a timestamp t is <<t>>.  A dict is the sequence of its     *)
(* <<key, value>> items in insertion order.                                *)
(***************************************************************************)
EXTENDS Integers, Sequences, FiniteSets, TLC

\* ------------------------------------------------------------------ bounds
\* MaxTextLen: the longest reference text; MaxKeystrokes: the most counted
\* keystrokes of a session (process_keystroke is not explored beyond it);
\* MaxClock: the latest reading of the clock.
MaxTextLen == 3
MaxKeystrokes == 3
MaxClock == 2

\* Characters of the reference texts; " " is the only whitespace among them.
Letters == {"a", "b"}
TextAlphabet == Letters \cup {" "}

RECURSIVE StringsUpTo(_, _)
StringsUpTo(S, n) ==
    IF n = 0 THEN {<<>>}
    ELSE LET shorter == StringsUpTo(S, n - 1)
         IN  shorter \cup {Append(s, c) : s \in {x \in shorter : Len(x) = n - 1}, c \in S}

Texts == StringsUpTo(TextAlphabet, MaxTextLen)

\* The char argument of a keystroke event: a single character or the empty string.
EventChars == {<<>>} \cup {<<c>> : c \in TextAlphabet}

\* The keystroke events: every char without the backspace flag, and the flag
\* with the empty char (what the screen sends) or with a char, which is ignored.
KeystrokeEvents ==
    [char : EventChars, is_backspace : {FALSE}]
        \cup [char : {<<>>, <<" ">>}, is_backspace : {TRUE}]

None == <<>>

\* ------------------------------------------------------------------- state
VARIABLES
    text,                 \* self.text
    words,                \* self.words
    start_time,           \* self.start_time
    end_time,             \* self.end_time
    total_keystrokes,     \* self.total_keystrokes
    correct_keystrokes,   \* self.correct_keystrokes
    incorrect_keystrokes, \* self.incorrect_keystrokes
    current_word_index,   \* self.current_word_index
    current_word_input,   \* self.current_word_input
    completed_words,      \* self.completed_words
    key_errors,           \* self.key_errors
    last,                 \* the arguments of the last process_keystroke call
    result,               \* what the last process_keystroke call returned
    driver,               \* who calls the session: "any", "typist" or "script"
    script,               \* the calls a scripted driver makes, in order
    pc,                   \* how many calls of the script have been made
    trace,                \* the states and results a first run of the script gave
    texts_data,           \* DataManager: the texts file of one language
    app                   \* main(): the page, its handlers and the events pending

session == <<total_keystrokes, correct_keystrokes, incorrect_keystrokes,
             current_word_index, current_word_input, completed_words, key_errors>>
counters == <<total_keystrokes, correct_keystrokes, incorrect_keystrokes>>
vars == <<text, words, start_time, end_time, total_keystrokes, correct_keystrokes,
          incorrect_keystrokes, current_word_index, current_word_input,
          completed_words, key_errors, last, result, driver, script, pc,
          trace, texts_data, app>>
\* what the engine's methods neither read nor assign
outside == <<trace, texts_data, app>>
harness == <<driver, script, pc, outside>>

\* ----------------------------------------------------------- str.split()
\* Mutant of SplitFrom: every whitespace character ends a word, as
\* text.split(" ") does, so a run of whitespace yields empty words.
RECURSIVE SplitFrom_KeepEmpty(_, _, _, _)
SplitFrom_KeepEmpty(s, i, cur, acc) ==
    IF i > Len(s)
    THEN Append(acc, cur)
    ELSE IF s[i] = " "
         THEN SplitFrom_KeepEmpty(s, i + 1, <<>>, Append(acc, cur))
         ELSE SplitFrom_KeepEmpty(s, i + 1, Append(cur, s[i]), acc)

\* text.split(): the maximal runs of non-whitespace characters, in order.
RECURSIVE SplitFrom(_, _, _, _)
SplitFrom(s, i, cur, acc) ==
    IF i > Len(s)
    THEN IF cur = <<>> THEN acc ELSE Append(acc, cur)
    ELSE IF s[i] = " "
         THEN SplitFrom(s, i + 1, <<>>, IF cur = <<>> THEN acc ELSE Append(acc, cur))
         ELSE SplitFrom(s, i + 1, Append(cur, s[i]), acc)

Split(s) == SplitFrom(s, 1, <<>>, <<>>)

\* ------------------------------------------------------------------ dict
RECURSIVE DictIndex(_, _, _)
DictIndex(d, k, i) ==
    IF i > Len(d) THEN 0
    ELSE IF d[i][1] = k THEN i ELSE DictIndex(d, k, i + 1)

\* d.get(k, default)
DictGet(d, k, default) ==
    LET i == DictIndex(d, k, 1) IN IF i = 0 THEN default ELSE d[i][2]

\* d[k] = v : an existing key keeps its place, a new key goes last
DictSet(d, k, v) ==
    LET i == DictIndex(d, k, 1)
    IN  IF i = 0 THEN Append(d, <<k, v>>) ELSE [d EXCEPT ![i] = <<k, v>>]

\* ------------------------------------------------------------- TypingTest
\* before the first process_keystroke call
NoCall == [op |-> "none", char |-> <<>>, is_backspace |-> FALSE]
NoResult == [accepted |-> FALSE, error |-> FALSE]

\* TypingTest(t): the session as __init__ leaves it
TypingTest(t) ==
    /\ text = t
    /\ words = Split(t)
    /\ start_time = None
    /\ end_time = None
    /\ total_keystrokes = 0
    /\ correct_keystrokes = 0
    /\ incorrect_keystrokes = 0
    /\ current_word_index = 0
    /\ current_word_input = <<>>
    /\ completed_words = <<>>
    /\ key_errors = <<>>
    /\ last = NoCall
    /\ result = NoResult

\* state["current_test"] = TypingTest(t), started when st is a timestamp: the
\* variables of the session then stand for the new object.
NewSession(t, st) ==
    /\ text' = t
    /\ words' = Split(t)
    /\ start_time' = st
    /\ end_time' = None
    /\ total_keystrokes' = 0
    /\ correct_keystrokes' = 0
    /\ incorrect_keystrokes' = 0
    /\ current_word_index' = 0
    /\ current_word_input' = <<>>
    /\ completed_words' = <<>>
    /\ key_errors' = <<>>
    /\ last' = NoCall
    /\ result' = NoResult

\* DataManager._initialize_data_files: each difficulty starts with
\* DefaultCount texts that are not custom.
DefaultCount == 5
Difficulties == {"beginner", "intermediate", "advanced"}
DefaultTexts ==
    [d \in Difficulties |->
        [k \in 1..DefaultCount |->
            [id |-> <<"default", d, k>>, text |-> <<"a">>, custom |-> FALSE]]]

\* no page: the session is used on its own
NoApp ==
    [screen |-> "none",        \* what the page shows: "welcome", "selection", "typing"
     keyboard |-> "none",      \* page.on_keyboard_event: "none", "typing", "results"
     pending |-> {},           \* the events of the last key press not yet handled
     handled |-> "none",       \* the handler that ran last
     origin |-> "none",        \* the handler that constructed the current test
     calls |-> <<>>,           \* the calls the last handler made on the test, in order
     finished |-> 0,           \* finish() calls on the current test
     scored |-> 0,             \* calculate_scores() calls on the current test
     saved |-> 0,              \* save_result() calls for the current test
     late |-> FALSE,           \* a keystroke reached the current test after finish()
     quran |-> "none",         \* state["quran_info"]: "none", "more" or "last" (is_last)
     by_press |-> FALSE,       \* the results are shown by the key press still pending
     discarded |-> [text |-> <<>>, total_keystrokes |-> 0]]  \* the test replaced last

\* the session is driven directly, without data files and without a page
Detached ==
    /\ trace = <<>>
    /\ texts_data = DefaultTexts
    /\ app = NoApp

\* A session on any of the texts, every method callable in any order.
Init ==
    /\ \E t \in Texts : TypingTest(t)
    /\ driver = "any"
    /\ script = <<>>
    /\ pc = 0
    /\ Detached

\* time.time(): the clock is monotonic, so a reading is no earlier than the
\* readings the session has recorded, and it is positive.
Max(a, b) == IF a >= b THEN a ELSE b
Stamp(t) == IF t = None THEN 1 ELSE t[1]
Latest == Max(Stamp(start_time), Stamp(end_time))
Clock == Latest..MaxClock

Start ==
    /\ \E t \in Clock : start_time' = <<t>>
    /\ UNCHANGED <<harness, text, words, end_time, session, last, result>>

Finish ==
    /\ \E t \in Clock : end_time' = <<t>>
    /\ UNCHANGED <<harness, text, words, start_time, session, last, result>>

get_current_word ==
    IF current_word_index < Len(words)
    THEN words[current_word_index + 1]
    ELSE <<>>

is_current_word_correct == current_word_input = get_current_word

\* Mutant of can_add_space: the gate looks at the length of the buffer only.
can_add_space_LengthOnly == Len(current_word_input) = Len(get_current_word)

can_add_space == is_current_word_correct

is_test_complete == current_word_index >= Len(words)

\* Mutant of KeyBackspace: a removed character is taken back out of the count.
KeyBackspace_Uncount ==
    /\ current_word_input' =
          IF Len(current_word_input) > 0
          THEN SubSeq(current_word_input, 1, Len(current_word_input) - 1)
          ELSE current_word_input
    /\ total_keystrokes' =
          IF Len(current_word_input) > 0 THEN total_keystrokes - 1 ELSE total_keystrokes
    /\ result' = [accepted |-> TRUE, error |-> FALSE]
    /\ UNCHANGED <<correct_keystrokes, incorrect_keystrokes, current_word_index,
                   completed_words, key_errors>>

\* Mutant of KeyBackspace: on an empty buffer it reopens the previous word.
KeyBackspace_PreviousWord ==
    /\ IF Len(current_word_input) > 0
       THEN /\ current_word_input' =
                  SubSeq(current_word_input, 1, Len(current_word_input) - 1)
            /\ UNCHANGED <<current_word_index, completed_words>>
       ELSE IF Len(completed_words) > 0 /\ current_word_index > 0
            THEN /\ current_word_input' = completed_words[Len(completed_words)]
                 /\ completed_words' =
                       SubSeq(completed_words, 1, Len(completed_words) - 1)
                 /\ current_word_index' = current_word_index - 1
            ELSE UNCHANGED <<current_word_input, current_word_index, completed_words>>
    /\ result' = [accepted |-> TRUE, error |-> FALSE]
    /\ UNCHANGED <<counters, key_errors>>

\* Mutant of KeyBackspace: it empties the buffer of the current word.
KeyBackspace_ClearsWord ==
    /\ current_word_input' = <<>>
    /\ result' = [accepted |-> TRUE, error |-> FALSE]
    /\ UNCHANGED <<counters, current_word_index, completed_words, key_errors>>

\* Mutant of KeyBackspace: it is accepted but removes nothing.
KeyBackspace_KeepsBuffer ==
    /\ result' = [accepted |-> TRUE, error |-> FALSE]
    /\ UNCHANGED session

\* if is_backspace: ...
KeyBackspace ==
    /\ current_word_input' =
          IF Len(current_word_input) > 0
          THEN SubSeq(current_word_input, 1, Len(current_word_input) - 1)
          ELSE current_word_input
    /\ result' = [accepted |-> TRUE, error |-> FALSE]
    /\ UNCHANGED <<counters, current_word_index, completed_words, key_errors>>

\* Mutant of KeySpace: an accepted space is counted in the total only.
KeySpace_NoCorrectCount ==
    IF can_add_space
    THEN /\ completed_words' = Append(completed_words, current_word_input)
         /\ current_word_index' = current_word_index + 1
         /\ current_word_input' = <<>>
         /\ total_keystrokes' = total_keystrokes + 1
         /\ result' = [accepted |-> TRUE, error |-> FALSE]
         /\ UNCHANGED <<correct_keystrokes, incorrect_keystrokes, key_errors>>
    ELSE /\ result' = [accepted |-> FALSE, error |-> TRUE]
         /\ UNCHANGED session

\* if char == ' ': ...
KeySpace ==
    IF can_add_space
    THEN /\ completed_words' = Append(completed_words, current_word_input)
         /\ current_word_index' = current_word_index + 1
         /\ current_word_input' = <<>>
         /\ total_keystrokes' = total_keystrokes + 1
         /\ correct_keystrokes' = correct_keystrokes + 1
         /\ result' = [accepted |-> TRUE, error |-> FALSE]
         /\ UNCHANGED <<incorrect_keystrokes, key_errors>>
    ELSE /\ result' = [accepted |-> FALSE, error |-> TRUE]
         /\ UNCHANGED session

\* Mutant of KeyChar: a mismatched character is rejected instead of stored.
KeyChar_RejectMismatch(char) ==
    LET current_word == get_current_word
        current_pos == Len(current_word_input)
    IN  IF current_pos < Len(current_word) /\ char = <<current_word[current_pos + 1]>>
        THEN /\ current_word_input' = current_word_input \o char
             /\ total_keystrokes' = total_keystrokes + 1
             /\ correct_keystrokes' = correct_keystrokes + 1
             /\ result' = [accepted |-> TRUE, error |-> FALSE]
             /\ UNCHANGED <<incorrect_keystrokes, key_errors, current_word_index,
                            completed_words>>
        ELSE /\ result' = [accepted |-> FALSE, error |-> TRUE]
             /\ UNCHANGED session

\* Mutant of KeyChar: a character beyond the word's length is rejected but
\* still counted as an incorrect keystroke.
KeyChar_CountOverflow(char) ==
    LET current_word == get_current_word
        current_pos == Len(current_word_input)
    IN  IF current_pos < Len(current_word)
        THEN LET is_correct == (char = <<current_word[current_pos + 1]>>)
                 expected_char == current_word[current_pos + 1]
             IN  /\ current_word_input' = current_word_input \o char
                 /\ total_keystrokes' = total_keystrokes + 1
                 /\ IF is_correct
                    THEN /\ correct_keystrokes' = correct_keystrokes + 1
                         /\ UNCHANGED <<incorrect_keystrokes, key_errors>>
                    ELSE /\ incorrect_keystrokes' = incorrect_keystrokes + 1
                         /\ key_errors' = DictSet(key_errors, expected_char,
                                                  DictGet(key_errors, expected_char, 0) + 1)
                         /\ UNCHANGED correct_keystrokes
                 /\ result' = [accepted |-> TRUE, error |-> ~is_correct]
                 /\ UNCHANGED <<current_word_index, completed_words>>
        ELSE /\ result' = [accepted |-> FALSE, error |-> TRUE]
             /\ total_keystrokes' = total_keystrokes + 1
             /\ incorrect_keystrokes' = incorrect_keystrokes + 1
             /\ UNCHANGED <<correct_keystrokes, current_word_index, current_word_input,
                            completed_words, key_errors>>

\* Mutant of KeyChar: typing is not capped at the word's length.
KeyChar_NoCap(char) ==
    LET current_word == get_current_word
        current_pos == Len(current_word_input)
        is_correct == current_pos < Len(current_word)
                         /\ char = <<current_word[current_pos + 1]>>
    IN  /\ current_word_input' = current_word_input \o char
        /\ total_keystrokes' = total_keystrokes + 1
        /\ IF is_correct
           THEN /\ correct_keystrokes' = correct_keystrokes + 1
                /\ UNCHANGED incorrect_keystrokes
           ELSE /\ incorrect_keystrokes' = incorrect_keystrokes + 1
                /\ UNCHANGED correct_keystrokes
        /\ result' = [accepted |-> TRUE, error |-> ~is_correct]
        /\ UNCHANGED <<current_word_index, completed_words, key_errors>>

\* Mutant of KeyChar: a mistake is recorded under the character typed.
KeyChar_TypedKey(char) ==
    LET current_word == get_current_word
        current_pos == Len(current_word_input)
    IN  IF current_pos < Len(current_word)
        THEN LET is_correct == (char = <<current_word[current_pos + 1]>>)
                 typed_char == IF char = <<>> THEN "" ELSE char[1]
             IN  /\ current_word_input' = current_word_input \o char
                 /\ total_keystrokes' = total_keystrokes + 1
                 /\ IF is_correct
                    THEN /\ correct_keystrokes' = correct_keystrokes + 1
                         /\ UNCHANGED <<incorrect_keystrokes, key_errors>>
                    ELSE /\ incorrect_keystrokes' = incorrect_keystrokes + 1
                         /\ key_errors' = DictSet(key_errors, typed_char,
                                                  DictGet(key_errors, typed_char, 0) + 1)
                         /\ UNCHANGED correct_keystrokes
                 /\ result' = [accepted |-> TRUE, error |-> ~is_correct]
                 /\ UNCHANGED <<current_word_index, completed_words>>
        ELSE /\ result' = [accepted |-> FALSE, error |-> TRUE]
             /\ UNCHANGED session

\* Mutant of KeyChar: a character beyond the word's length is rejected
\* without the error flag.
KeyChar_SilentReject(char) ==
    LET current_word == get_current_word
        current_pos == Len(current_word_input)
    IN  IF current_pos < Len(current_word)
        THEN LET is_correct == (char = <<current_word[current_pos + 1]>>)
                 expected_char == current_word[current_pos + 1]
             IN  /\ current_word_input' = current_word_input \o char
                 /\ total_keystrokes' = total_keystrokes + 1
                 /\ IF is_correct
                    THEN /\ correct_keystrokes' = correct_keystrokes + 1
                         /\ UNCHANGED <<incorrect_keystrokes, key_errors>>
                    ELSE /\ incorrect_keystrokes' = incorrect_keystrokes + 1
                         /\ key_errors' = DictSet(key_errors, expected_char,
                                                  DictGet(key_errors, expected_char, 0) + 1)
                         /\ UNCHANGED correct_keystrokes
                 /\ result' = [accepted |-> TRUE, error |-> ~is_correct]
                 /\ UNCHANGED <<current_word_index, completed_words>>
        ELSE /\ result' = [accepted |-> FALSE, error |-> FALSE]
             /\ UNCHANGED session

\* Mutant of KeyChar: once finish() was called every character is rejected.
KeyChar_StoppedByFinish(char) ==
    LET current_word == get_current_word
        current_pos == Len(current_word_input)
    IN  IF end_time = None /\ current_pos < Len(current_word)
        THEN LET is_correct == (char = <<current_word[current_pos + 1]>>)
                 expected_char == current_word[current_pos + 1]
             IN  /\ current_word_input' = current_word_input \o char
                 /\ total_keystrokes' = total_keystrokes + 1
                 /\ IF is_correct
                    THEN /\ correct_keystrokes' = correct_keystrokes + 1
                         /\ UNCHANGED <<incorrect_keystrokes, key_errors>>
                    ELSE /\ incorrect_keystrokes' = incorrect_keystrokes + 1
                         /\ key_errors' = DictSet(key_errors, expected_char,
                                                  DictGet(key_errors, expected_char, 0) + 1)
                         /\ UNCHANGED correct_keystrokes
                 /\ result' = [accepted |-> TRUE, error |-> ~is_correct]
                 /\ UNCHANGED <<current_word_index, completed_words>>
        ELSE /\ result' = [accepted |-> FALSE, error |-> TRUE]
             /\ UNCHANGED session

\* Regular character
KeyChar(char) ==
    LET current_word == get_current_word
        current_pos == Len(current_word_input)
    IN  IF current_pos < Len(current_word)
        THEN LET is_correct == (char = <<current_word[current_pos + 1]>>)
                 expected_char == current_word[current_pos + 1]
             IN  /\ current_word_input' = current_word_input \o char
                 /\ total_keystrokes' = total_keystrokes + 1
                 /\ IF is_correct
                    THEN /\ correct_keystrokes' = correct_keystrokes + 1
                         /\ UNCHANGED <<incorrect_keystrokes, key_errors>>
                    ELSE /\ incorrect_keystrokes' = incorrect_keystrokes + 1
                         /\ key_errors' = DictSet(key_errors, expected_char,
                                                  DictGet(key_errors, expected_char, 0) + 1)
                         /\ UNCHANGED correct_keystrokes
                 /\ result' = [accepted |-> TRUE, error |-> ~is_correct]
                 /\ UNCHANGED <<current_word_index, completed_words>>
        ELSE /\ result' = [accepted |-> FALSE, error |-> TRUE]
             /\ UNCHANGED session

process_keystroke(char, is_backspace) ==
    IF is_backspace
    THEN KeyBackspace
    ELSE IF char = <<" ">>
         THEN KeySpace
         ELSE KeyChar(char)

ProcessKeystroke ==
    \E e \in KeystrokeEvents :
        /\ process_keystroke(e.char, e.is_backspace)
        /\ total_keystrokes' <= MaxKeystrokes
        /\ last' = [op |-> "keystroke", char |-> e.char, is_backspace |-> e.is_backspace]
        /\ UNCHANGED <<harness, text, words, start_time, end_time>>

\* ------------------------------------------------------------ statistics
\* Truth value of an optional timestamp: None and 0 are false.
Truthy(t) == t # None /\ t[1] # 0

\* get_duration(), in seconds
get_duration ==
    IF Truthy(start_time) /\ Truthy(end_time)
    THEN end_time[1] - start_time[1]
    ELSE 0

\* round(n / d) to a whole number for n >= 0 and d > 0, halfway going to the
\* even neighbour: round(wpm), round(accuracy) and round((a + b) / 2), whose
\* arguments are floats equal to, or nearest to, a whole number of tenths or
\* of halves, so that halfway is met exactly.
RoundHalfEven(n, d) ==
    LET q == n \div d
        r == n % d
    IN  IF 2 * r < d THEN q
        ELSE IF 2 * r > d THEN q + 1
        ELSE IF q % 2 = 0 THEN q ELSE q + 1

\* A natural number of any size is the sequence of its binary digits, the most
\* significant first; 0 is <<>>.
RECURSIVE Binary(_)
Binary(n) == IF n = 0 THEN <<>> ELSE Binary(n \div 2) \o <<n % 2>>

RECURSIVE Natural(_)
Natural(b) ==
    IF b = <<>> THEN 0 ELSE 2 * Natural(SubSeq(b, 1, Len(b) - 1)) + b[Len(b)]

\* b without its leading zeros
Strip(b) ==
    LET ones == {i \in 1..Len(b) : b[i] = 1}
    IN  IF ones = {} THEN <<>>
        ELSE SubSeq(b, CHOOSE i \in ones : \A j \in ones : i <= j, Len(b))

Zeros(k) == [i \in 1..k |-> 0]
Pad(b, n) == Zeros(n - Len(b)) \o b

Less(a, b) ==
    \/ Len(a) < Len(b)
    \/ /\ Len(a) = Len(b)
       /\ \E i \in 1..Len(a) : a[i] < b[i] /\ \A j \in 1..(i - 1) : a[j] = b[j]

\* a + b: the carry into a digit comes from the nearest lower digit where
\* both are 1, through digits where exactly one is 1
BigAdd(a, b) ==
    LET n == 1 + (IF Len(a) >= Len(b) THEN Len(a) ELSE Len(b))
        x == Pad(a, n)
        y == Pad(b, n)
        carry(i) == \E j \in (i + 1)..n :
                        /\ x[j] + y[j] = 2
                        /\ \A k \in (i + 1)..(j - 1) : x[k] + y[k] = 1
    IN  Strip([i \in 1..n |-> (x[i] + y[i] + (IF carry(i) THEN 1 ELSE 0)) % 2])

\* a - b for a >= b: the borrow from a digit comes from the nearest lower
\* digit where a has 0 and b has 1, through digits where the two are equal
BigSub(a, b) ==
    LET n == Len(a)
        y == Pad(b, n)
        borrow(i) == \E j \in (i + 1)..n :
                         /\ a[j] < y[j]
                         /\ \A k \in (i + 1)..(j - 1) : a[k] = y[k]
    IN  Strip([i \in 1..n |-> (a[i] - y[i] - (IF borrow(i) THEN 1 ELSE 0) + 2) % 2])

RECURSIVE BigMul(_, _)
BigMul(a, b) ==
    IF b = <<>> THEN <<>>
    ELSE LET double == Strip(BigMul(a, SubSeq(b, 1, Len(b) - 1)) \o <<0>>)
         IN  IF b[Len(b)] = 1 THEN BigAdd(double, a) ELSE double

\* long division of n by d > 0: from the quotient and remainder s of the
\* digits before, those after the digits from..to of n
RECURSIVE DivideDigits(_, _, _, _, _)
DivideDigits(n, d, s, from, to) ==
    IF to < from THEN s
    ELSE LET p == DivideDigits(n, d, s, from, to - 1)
             r == Strip(p.r \o <<n[to]>>)
         IN  IF Less(r, d)
             THEN [q |-> Strip(p.q \o <<0>>), r |-> r]
             ELSE [q |-> p.q \o <<1>>, r |-> BigSub(r, d)]

\* the quotient and remainder after the first 8 * k digits of n (or all)
RECURSIVE DivideBlocks(_, _, _)
DivideBlocks(n, d, k) ==
    IF k = 0 THEN [q |-> <<>>, r |-> <<>>]
    ELSE CHOOSE t \in {DivideDigits(n, d, s, 8 * k - 7,
                                    IF 8 * k < Len(n) THEN 8 * k ELSE Len(n)) :
                        s \in {DivideBlocks(n, d, k - 1)}} : TRUE

\* quotient and remainder of n by d > 0
BigDivMod(n, d) ==
    CHOOSE t \in {DivideBlocks(u, v, (Len(u) + 7) \div 8) :
                    u \in {n}, v \in {d}} : TRUE

\* A float x >= 0 is [m, e] with x = m * 2^e and m of at most 53 binary digits
\* (IEEE 754 binary64; the values here are far from its smallest and largest).
\* ToFloat(b, sticky, e) is the float nearest to the number whose digits start
\* with b * 2^e, sticky telling that non-zero digits follow; halfway goes to
\* the even mantissa.
ToFloat(b, sticky, e) ==
    IF Len(b) <= 53 THEN [m |-> b, e |-> e]
    ELSE LET keep == SubSeq(b, 1, 53)
             more == sticky \/ \E i \in 55..Len(b) : b[i] = 1
             up == b[54] = 1 /\ (more \/ keep[53] = 1)
             m == IF up THEN BigAdd(keep, <<1>>) ELSE keep
         IN  IF Len(m) = 54
             THEN [m |-> SubSeq(m, 1, 53), e |-> e + Len(b) - 53 + 1]
             ELSE [m |-> m, e |-> e + Len(b) - 53]

\* float(n) of an int below 2^53
Float(n) == [m |-> Binary(n), e |-> 0]

\* the float nearest to n / d for whole numbers n > 0 and d > 0, times 2^e
Quotient(n, d, e) ==
    LET s == IF 55 + Len(d) - Len(n) > 0 THEN 55 + Len(d) - Len(n) ELSE 0
    IN  CHOOSE f \in {ToFloat(p.q, p.r # <<>>, e - s) :
                        p \in {BigDivMod(n \o Zeros(s), d)}} : TRUE

\* x / y for y > 0
FloatDiv(x, y) ==
    CHOOSE f \in {IF u.m = <<>> THEN u ELSE Quotient(u.m, v.m, u.e - v.e) :
                    u \in {x}, v \in {y}} : TRUE

\* x * y
FloatMul(x, y) ==
    CHOOSE f \in {ToFloat(p, FALSE, u.e + v.e) :
                    p \in {BigMul(u.m, v.m) : u \in {x}, v \in {y}},
                    u \in {x}, v \in {y}} : TRUE

\* round(x, 1) in tenths: the whole number nearest to 10 times the exact
\* value of the float, halfway going to the even one
Round1(x) ==
    LET p == BigMul(x.m, Binary(10))
    IN  IF x.e >= 0 THEN Natural(p \o Zeros(x.e))
        ELSE LET k == 0 - x.e
                 b == IF Len(p) < k THEN Pad(p, k) ELSE p
                 whole == Natural(Strip(SubSeq(b, 1, Len(b) - k)))
                 half == b[Len(b) - k + 1] = 1
                 more == \E i \in (Len(b) - k + 2)..Len(b) : b[i] = 1
             IN  IF ~half THEN whole
                 ELSE IF more THEN whole + 1
                 ELSE IF whole % 2 = 0 THEN whole ELSE whole + 1

\* n / d is halfway between two whole numbers
Halfway(n, d) == (2 * n) % d = 0 /\ ((2 * n) \div d) % 2 = 1

\* the whole number nearest to n / d when n / d is not halfway
Nearest(n, d) == (2 * n + d) \div (2 * d)

\* round(words / minutes, 1) in tenths, for words = characters / 5 and
\* minutes = duration / 60 with duration > 0.  The float words / minutes is
\* within 2^-50 of the exact 12 * characters / duration, relatively, so its
\* nearest tenth is that of the exact value unless the exact value is halfway
\* between two tenths; then the side the float lies on decides.
words_per_minute(characters, duration) ==
    IF Halfway(10 * characters * 60, 5 * duration)
    THEN Round1(FloatDiv(FloatDiv(Float(characters), Float(5)),
                         FloatDiv(Float(duration), Float(60))))
    ELSE Nearest(10 * characters * 60, 5 * duration)

\* round(correct / total * 100, 1) in tenths, for total > 0, in the same way
percentage(correct, total) ==
    IF Halfway(10 * correct * 100, total)
    THEN Round1(FloatMul(FloatDiv(Float(correct), Float(total)), Float(100)))
    ELSE Nearest(10 * correct * 100, total)

\* Mutant of calculate_wpm: every counted keystroke adds to the speed.
calculate_wpm_AllKeystrokes ==
    LET duration == get_duration
    IN  IF duration = 0 THEN 0
        ELSE IF duration > 0
             THEN words_per_minute(total_keystrokes, duration)
             ELSE 0

\* calculate_wpm(), in tenths of a word per minute:
\* round((correct_keystrokes / 5) / (duration / 60), 1) if minutes > 0 else 0
calculate_wpm ==
    LET duration == get_duration
    IN  IF duration = 0 THEN 0
        ELSE IF duration > 0
             THEN words_per_minute(correct_keystrokes, duration)
             ELSE 0

\* Mutant of calculate_accuracy: a session without keystrokes scores 0.
calculate_accuracy_ZeroIsZero ==
    IF total_keystrokes = 0
    THEN 0
    ELSE percentage(correct_keystrokes, total_keystrokes)

\* calculate_accuracy(), in tenths of a percent:
\* round(correct_keystrokes / total_keystrokes * 100, 1)
calculate_accuracy ==
    IF total_keystrokes = 0
    THEN 1000
    ELSE percentage(correct_keystrokes, total_keystrokes)

Min(a, b) == IF a <= b THEN a ELSE b

\* Mutant of InsertDescending: an item goes in front of the items of equal count.
InsertDescending_TiesReversed(s, item) ==
    LET k == Cardinality({i \in 1..Len(s) : s[i][2] > item[2]})
    IN  SubSeq(s, 1, k) \o <<item>> \o SubSeq(s, k + 1, Len(s))

\* One step of sorted(..., key=lambda x: x[1], reverse=True): the sort is
\* stable, so an item goes behind every item whose count is at least its own.
InsertDescending(s, item) ==
    LET k == Cardinality({i \in 1..Len(s) : s[i][2] >= item[2]})
    IN  SubSeq(s, 1, k) \o <<item>> \o SubSeq(s, k + 1, Len(s))

RECURSIVE SortedDescending(_)
SortedDescending(items) ==
    IF items = <<>> THEN <<>>
    ELSE InsertDescending(SortedDescending(SubSeq(items, 1, Len(items) - 1)),
                          items[Len(items)])

\* get_top_missed_keys(): sorted_errors[:3]
get_top_missed_keys ==
    LET sorted_errors == SortedDescending(key_errors)
    IN  SubSeq(sorted_errors, 1, Min(3, Len(sorted_errors)))

\* Mutant of calculate_scores: the speed score is the rounded speed, uncapped.
calculate_scores_NoCap ==
    LET wpm == calculate_wpm
        accuracy == calculate_accuracy
        speed_score == RoundHalfEven(wpm, 10)
        accuracy_score == RoundHalfEven(accuracy, 10)
        overall_score == RoundHalfEven(speed_score + accuracy_score, 2)
    IN  [wpm |-> wpm,
         accuracy |-> accuracy,
         speed_score |-> speed_score,
         accuracy_score |-> accuracy_score,
         overall_score |-> overall_score,
         duration |-> 10 * get_duration,
         total_keystrokes |-> total_keystrokes,
         correct_keystrokes |-> correct_keystrokes,
         incorrect_keystrokes |-> incorrect_keystrokes,
         top_missed_keys |-> get_top_missed_keys]

\* calculate_scores(): wpm, accuracy and duration in tenths, the scores whole.
calculate_scores ==
    LET wpm == calculate_wpm
        accuracy == calculate_accuracy
        speed_score == Min(100, RoundHalfEven(wpm, 10))
        accuracy_score == RoundHalfEven(accuracy, 10)
        overall_score == RoundHalfEven(speed_score + accuracy_score, 2)
    IN  [wpm |-> wpm,
         accuracy |-> accuracy,
         speed_score |-> speed_score,
         accuracy_score |-> accuracy_score,
         overall_score |-> overall_score,
         duration |-> 10 * get_duration,
         total_keystrokes |-> total_keystrokes,
         correct_keystrokes |-> correct_keystrokes,
         incorrect_keystrokes |-> incorrect_keystrokes,
         top_missed_keys |-> get_top_missed_keys]

\* Mutant of get_current_stats: the figures are live before start() as well.
get_current_stats_LiveBeforeStart(now) ==
    LET elapsed == IF Truthy(start_time) THEN now - start_time[1] ELSE 0
    IN  [elapsed_time |-> 10 * elapsed,
         current_wpm |-> IF elapsed > 0
                         THEN words_per_minute(correct_keystrokes, elapsed)
                         ELSE 0,
         current_accuracy |-> calculate_accuracy,
         errors |-> incorrect_keystrokes,
         current_word |-> get_current_word,
         current_word_input |-> current_word_input,
         words_completed |-> Len(completed_words),
         total_words |-> Len(words)]

\* get_current_stats() when time.time() reads now: elapsed_time, current_wpm
\* and current_accuracy in tenths.
get_current_stats(now) ==
    IF ~Truthy(start_time)
    THEN [elapsed_time |-> 0,
          current_wpm |-> 0,
          current_accuracy |-> 1000,
          errors |-> 0,
          current_word |-> get_current_word,
          current_word_input |-> current_word_input,
          words_completed |-> Len(completed_words),
          total_words |-> Len(words)]
    ELSE LET elapsed == now - start_time[1]
         IN  [elapsed_time |-> 10 * elapsed,
              current_wpm |-> IF elapsed > 0
                              THEN words_per_minute(correct_keystrokes, elapsed)
                              ELSE 0,
              current_accuracy |-> calculate_accuracy,
              errors |-> incorrect_keystrokes,
              current_word |-> get_current_word,
              current_word_input |-> current_word_input,
              words_completed |-> Len(completed_words),
              total_words |-> Len(words)]

\* get_current_stats() reads the session and the clock and assigns nothing;
\* what it returns is get_current_stats(now) for the clock's reading.
GetCurrentStats ==
    UNCHANGED vars

Next ==
    \/ Start
    \/ Finish
    \/ ProcessKeystroke
    \/ GetCurrentStats

Spec == Init /\ [][Next]_vars

\* ------------------------------------------------------- scripted sessions
\* A scripted driver feeds a fixed sequence of keystroke events to a session
\* on a fixed text, one process_keystroke call per event; start() and finish()
\* may be called at any point of the script.
Key(c) == [char |-> <<c>>, is_backspace |-> FALSE]
Backspace == [char |-> <<>>, is_backspace |-> TRUE]

\* n mistakes on the next character, each taken back
RECURSIVE Mistakes(_)
Mistakes(n) == IF n = 0 THEN <<>> ELSE <<Key("x"), Backspace>> \o Mistakes(n - 1)

\* "cat dog" typed with one mistake in the second word
CatDog ==
    [text |-> <<"c", "a", "t", " ", "d", "o", "g">>,
     events |-> <<Key("c"), Key("a"), Key("t"), Key(" "),
                  Key("d"), Key("x"), Backspace, Key("o"), Key("g"), Key(" ")>>]

\* four words typed without a mistake
FourWords ==
    [text |-> <<"a", "b", " ", "a", "b", " ", "a", "b", " ", "a", "b">>,
     events |-> <<Key("a"), Key("b"), Key(" "), Key("a"), Key("b"), Key(" "),
                  Key("a"), Key("b"), Key(" "), Key("a"), Key("b"), Key(" ")>>]

\* "eato" typed with 3, 5, 1 and 2 mistakes on its four characters
MissedKeys ==
    [text |-> <<"e", "a", "t", "o">>,
     events |-> Mistakes(3) \o <<Key("e")>> \o Mistakes(5) \o <<Key("a")>>
                   \o Mistakes(1) \o <<Key("t")>> \o Mistakes(2)
                   \o <<Key("o"), Key(" ")>>]

Scenarios == {CatDog, FourWords, MissedKeys}

InitScenario ==
    /\ \E sc \in Scenarios : TypingTest(sc.text) /\ script = sc.events
    /\ driver = "script"
    /\ pc = 0
    /\ Detached

\* the next process_keystroke call of the script
Replay ==
    /\ driver = "script"
    /\ pc < Len(script)
    /\ LET e == script[pc + 1]
       IN  /\ process_keystroke(e.char, e.is_backspace)
           /\ last' = [op |-> "keystroke", char |-> e.char,
                       is_backspace |-> e.is_backspace]
    /\ pc' = pc + 1
    /\ UNCHANGED <<text, words, start_time, end_time, driver, script, outside>>

NextScenario ==
    \/ Start
    \/ Finish
    \/ Replay
    \/ GetCurrentStats

SpecScenario == InitScenario /\ [][NextScenario]_vars

\* ------------------------------------------------------ recovering typist
\* After any keystrokes a typist takes over who presses backspace while the
\* buffer is not a prefix of the current word, presses space when the buffer
\* equals the word, and otherwise types the next expected character.
IsPrefix(s, w) == Len(s) <= Len(w) /\ s = SubSeq(w, 1, Len(s))

TypistEvent ==
    LET current_word == get_current_word
    IN  IF ~IsPrefix(current_word_input, current_word) THEN Backspace
        ELSE IF current_word_input = current_word THEN Key(" ")
        ELSE Key(current_word[Len(current_word_input) + 1])

TakeOver ==
    /\ driver = "any"
    /\ driver' = "typist"
    /\ UNCHANGED <<text, words, start_time, end_time, session, last, result, script, pc,
                   outside>>

AnyKeystroke ==
    /\ driver = "any"
    /\ ProcessKeystroke

\* One event of the typist; the typist stops when the test is complete.
TypistStep ==
    /\ driver = "typist"
    /\ ~is_test_complete
    /\ LET e == TypistEvent
       IN  /\ process_keystroke(e.char, e.is_backspace)
           /\ last' = [op |-> "keystroke", char |-> e.char,
                       is_backspace |-> e.is_backspace]
    /\ UNCHANGED <<harness, text, words, start_time, end_time>>

NextTypist ==
    \/ AnyKeystroke
    \/ TakeOver
    \/ TypistStep

\* The typist keeps typing: an event of theirs that is possible is made.
SpecTypist == Init /\ [][NextTypist]_vars /\ WF_vars(TypistStep)

\* ----------------------------------------------------------- twin sessions
\* Two sessions on one text are fed one sequence of keystroke events.  The
\* first is run to the end of the script and what it was and returned after
\* each event is kept in trace; the second, a new TypingTest on the same
\* text, is then fed the same events.  start(), finish() and
\* get_current_stats() are called on either at any point.
TwinTexts == {<<"a", "b">>, <<"a", " ", "b">>}
MaxScript == 3

InitTwin ==
    /\ \E t \in TwinTexts : TypingTest(t)
    /\ script \in StringsUpTo(KeystrokeEvents, MaxScript)
    /\ driver = "record"
    /\ pc = 0
    /\ Detached

\* the next process_keystroke call of the first session
Record ==
    /\ driver = "record"
    /\ pc < Len(script)
    /\ LET e == script[pc + 1]
       IN  /\ process_keystroke(e.char, e.is_backspace)
           /\ last' = [op |-> "keystroke", char |-> e.char,
                       is_backspace |-> e.is_backspace]
    /\ pc' = pc + 1
    /\ trace' = Append(trace, <<session', result'>>)
    /\ UNCHANGED <<text, words, start_time, end_time, driver, script, texts_data, app>>

\* the second session is constructed
Rerun ==
    /\ driver = "record"
    /\ pc = Len(script)
    /\ NewSession(text, None)
    /\ driver' = "script"
    /\ pc' = 0
    /\ UNCHANGED <<script, outside>>

NextTwin ==
    \/ Start
    \/ Finish
    \/ GetCurrentStats
    \/ Record
    \/ Rerun
    \/ Replay

SpecTwin == InitTwin /\ [][NextTwin]_vars

\* ------------------------------------------------------------ DataManager
\* The custom texts of one language: texts_data maps a difficulty to the list
\* of its texts.  A text keeps its id, its text and whether it is custom; the
\* id f"{language[:2]}_custom_{n}" is <<"custom", n>>.
CustomTexts == {<<"a">>, <<"a", "b">>}
MaxCustomTexts == 3

RECURSIVE CountCustom(_)
CountCustom(ts) ==
    IF ts = <<>> THEN 0
    ELSE (IF Head(ts).custom THEN 1 ELSE 0) + CountCustom(Tail(ts))

StoredIds == UNION {{texts_data[d][i].id : i \in 1..Len(texts_data[d])} : d \in Difficulties}

InitTexts ==
    /\ TypingTest(<<>>)
    /\ driver = "data"
    /\ script = <<>>
    /\ pc = 0
    /\ trace = <<>>
    /\ app = NoApp
    /\ texts_data = DefaultTexts

add_custom_text(t, difficulty) ==
    LET custom_id == <<"custom", Len(texts_data[difficulty])>>
        new_text == [id |-> custom_id, text |-> t, custom |-> TRUE]
    IN  texts_data' = [texts_data EXCEPT ![difficulty] = Append(@, new_text)]

delete_custom_text(text_id) ==
    texts_data' = [d \in Difficulties |->
                      SelectSeq(texts_data[d], LAMBDA t : t.id # text_id \/ ~t.custom)]

AddCustomText ==
    /\ driver = "data"
    /\ CountCustom(texts_data["beginner"]) + CountCustom(texts_data["intermediate"])
          + CountCustom(texts_data["advanced"]) < MaxCustomTexts
    /\ \E t \in CustomTexts, difficulty \in Difficulties : add_custom_text(t, difficulty)
    /\ UNCHANGED <<text, words, start_time, end_time, session, last, result,
                   driver, script, pc, trace, app>>

DeleteCustomText ==
    /\ driver = "data"
    /\ \E text_id \in StoredIds : delete_custom_text(text_id)
    /\ UNCHANGED <<text, words, start_time, end_time, session, last, result,
                   driver, script, pc, trace, app>>

NextTexts ==
    \/ AddCustomText
    \/ DeleteCustomText

SpecTexts == InitTexts /\ [][NextTexts]_vars

\* ------------------------------------------------------------------ main()
\* The page of src/main.py with the typing screen of src/flet_typing_screen.py,
\* as the sources are: DataManager has no get_quran_progress, get_surah_chunk
\* or save_quran_progress, MainMenu takes no on_resume_quran and ResultsScreen
\* no on_next, so the calls of main.py that use them raise and the handler
\* ends there, leaving what it had done before.
\* A handler runs to its end before the next event is handled.  A key press
\* on the typing screen gives a change event of the hidden text field and a
\* keyboard event of the page (Backspace on the emptied field: the keyboard
\* event only); the two are handled in either order.
AppTexts == {<<"a">>, <<"a", "b">>, <<" ">>}
Keys == {"a", "b", " ", "Backspace"}

\* main(page): the welcome screen without a user file; with one, show_menu(),
\* which leaves the page empty.  state["current_test"] is None: the variables
\* of the session are read by no handler.
InitApp ==
    /\ TypingTest(<<>>)
    /\ driver = "app"
    /\ script = <<>>
    /\ pc = 0
    /\ trace = <<>>
    /\ texts_data = DefaultTexts
    /\ \E screen \in {"welcome", "none"} :
          app = [NoApp EXCEPT !.screen = screen, !.handled = "main"]

\* show_text_selection() has opened its dialog: the state in which
\* start_test(difficulty) is called.  main() as it is does not get here
\* (show_menu() raises before the menu is added): the handlers behind the
\* dialog are taken on their own, as the session is in Spec, so what holds in
\* every state from here on holds in every state the page gets into.
InitSelection ==
    /\ TypingTest(<<>>)
    /\ driver = "app"
    /\ script = <<>>
    /\ pc = 0
    /\ trace = <<>>
    /\ texts_data = DefaultTexts
    /\ app = [NoApp EXCEPT !.screen = "selection", !.handled = "show_text_selection"]

\* Mutant of show_typing_screen: the screen does not send the "start" event.
show_typing_screen_NoStart(t, now, a) ==
    /\ NewSession(t, None)
    /\ app' = [a EXCEPT !.screen = "typing", !.keyboard = "typing",
                        !.calls = <<"TypingTest">>,
                        !.finished = 0, !.scored = 0, !.saved = 0, !.late = FALSE,
                        !.by_press = FALSE]

\* state["current_test"] = TypingTest(t); show_typing_screen(): the page is
\* cleaned, the constructor of the screen sends "start", the screen is added
\* and the keyboard handler of the page is the screen's.
show_typing_screen(t, now, a) ==
    /\ NewSession(t, <<now>>)
    /\ app' = [a EXCEPT !.screen = "typing", !.keyboard = "typing",
                        !.calls = <<"TypingTest", "start">>,
                        !.finished = 0, !.scored = 0, !.saved = 0, !.late = FALSE,
                        !.by_press = FALSE]

\* show_menu(): the page is cleaned and the keyboard handler unbound, then
\* data_manager.get_quran_progress() raises AttributeError (line 47) and the
\* menu is not added: the page stays empty.
show_menu(a) ==
    /\ app' = [a EXCEPT !.screen = "none", !.keyboard = "none", !.calls = <<>>,
                        !.by_press = FALSE]
    /\ UNCHANGED <<text, words, start_time, end_time, session, last, result>>

\* Mutant of show_results: the keyboard handler of the typing screen stays bound.
show_results_KeepsKeyboard(a) ==
    [a EXCEPT !.screen = "none",
              !.calls = a.calls \o <<"calculate_scores", "save_result">>,
              !.scored = a.scored + 1, !.saved = a.saved + 1,
              !.by_press = (a.pending # {})]

\* show_results(): the page after it.  The keyboard handler is unbound, the
\* page cleaned, the scores calculated, the result saved and
\* handle_results_key bound; then ResultsScreen(..., on_next=on_next) raises
\* TypeError (line 302) and no results are added: the page stays empty.
show_results(a) ==
    [a EXCEPT !.screen = "none", !.keyboard = "results",
              !.calls = a.calls \o <<"calculate_scores", "save_result">>,
              !.scored = a.scored + 1, !.saved = a.saved + 1,
              !.by_press = (a.pending # {})]

\* TypingTestScreen.process_input(data) with on_event of show_typing_screen:
\* "keystroke", then "update", then "finish" when the test is complete.
\* "finish" calls finish() and, without a Quran chunk, show_results(); with
\* one, data_manager.save_quran_progress raises AttributeError (line 228)
\* before show_results() is called.
process_input(e, now, a) ==
    /\ process_keystroke(e.char, e.is_backspace)
    /\ total_keystrokes' <= MaxKeystrokes
    /\ last' = [op |-> "keystroke", char |-> e.char, is_backspace |-> e.is_backspace]
    /\ UNCHANGED <<text, words, start_time>>
    /\ IF is_test_complete'
       THEN LET finished == [a EXCEPT !.calls = <<"process_keystroke",
                                                 "get_current_stats", "finish">>,
                                      !.finished = a.finished + 1,
                                      !.late = a.late \/ a.finished > 0]
            IN  /\ end_time' = <<now>>
                /\ app' = IF a.quran = "none" THEN show_results(finished) ELSE finished
       ELSE /\ UNCHANGED end_time
            /\ app' = [a EXCEPT !.calls = <<"process_keystroke", "get_current_stats">>,
                                !.late = a.late \/ a.finished > 0]

\* a handler that does nothing with its event
Ignore(a) ==
    /\ app' = [a EXCEPT !.calls = <<>>]
    /\ UNCHANGED <<text, words, start_time, end_time, session, last, result>>

\* restart_test(): a text of the same difficulty, a new test
restart_test(a) ==
    \E t \in AppTexts, now \in Clock : show_typing_screen(t, now, a)

\* start_quran_test(surah_id, char_start): data_manager.get_surah_chunk
\* raises AttributeError (line 65) before anything is assigned
start_quran_test(a) == Ignore(a)

\* Mutant of on_restart: the clock is started again on the session there is.
on_restart_KeepsSession(now, a) ==
    /\ start_time' = <<now>>
    /\ UNCHANGED <<text, words, end_time, session, last, result>>
    /\ app' = [a EXCEPT !.screen = "typing", !.keyboard = "typing",
                        !.calls = <<"start">>]

\* on_event("restart", None)
on_restart(now, a) == show_typing_screen(text, now, a)

Handled(a, ev, name) == [a EXCEPT !.pending = a.pending \ {ev}, !.handled = name]
From(a, name) ==
    [a EXCEPT !.handled = name, !.origin = name, !.discarded = NoApp.discarded]

\* on_welcome_complete(username, language)
WelcomeComplete ==
    /\ driver = "app"
    /\ app.screen = "welcome"
    /\ show_menu([app EXCEPT !.handled = "on_welcome_complete"])
    /\ UNCHANGED <<driver, script, pc, trace, texts_data>>

\* main() and what follows it: the welcome screen, then the empty page
SpecMain == InitApp /\ [][WelcomeComplete]_vars

\* a key is pressed once the events of the key before it are handled; it is
\* heard by the text field of the typing screen and by the keyboard handler
\* of the page, when there is one
KeyPress ==
    /\ driver = "app"
    /\ app.pending = {}
    /\ app.screen = "typing" \/ app.keyboard # "none"
    /\ \E k \in Keys :
          app' = [app EXCEPT
                    !.by_press = FALSE,
                    !.pending =
                        IF app.screen = "typing" /\ k # "Backspace"
                        THEN {[handler |-> "change", key |-> k],
                              [handler |-> "keyboard", key |-> k]}
                        ELSE {[handler |-> "keyboard", key |-> k]}]
    /\ UNCHANGED <<text, words, start_time, end_time, session, last, result,
                   driver, script, pc, trace, texts_data>>

\* TypingTestScreen.handle_input_change
HandleChange ==
    /\ driver = "app"
    /\ \E ev \in app.pending :
          /\ ev.handler = "change"
          /\ IF app.screen = "typing"
             THEN \E now \in Clock :
                     process_input([char |-> <<ev.key>>, is_backspace |-> FALSE], now,
                                   Handled(app, ev, "change"))
             ELSE Ignore(Handled(app, ev, "dropped"))
    /\ UNCHANGED <<driver, script, pc, trace, texts_data>>

\* page.on_keyboard_event: TypingTestScreen.handle_keystroke,
\* handle_results_key or None
HandleKeyboard ==
    /\ driver = "app"
    /\ \E ev \in app.pending :
          /\ ev.handler = "keyboard"
          /\ IF app.keyboard = "typing"
             THEN IF ev.key = "Backspace"
                  THEN \E now \in Clock :
                          process_input(Backspace, now, Handled(app, ev, "backspace"))
                  ELSE Ignore(Handled(app, ev, "key_ignored"))
             ELSE IF app.keyboard = "results" /\ ev.key = " "
                  THEN LET a == [Handled(app, ev, "results_key") EXCEPT
                                    !.keyboard = "none"]
                       IN  IF app.quran = "more"
                           THEN start_quran_test(a)
                           ELSE restart_test(From(a, "results_key"))
                  ELSE Ignore(Handled(app, ev, "key_ignored"))
    /\ UNCHANGED <<driver, script, pc, trace, texts_data>>

\* start_test(difficulty) of the text selection
StartTest ==
    /\ driver = "app"
    /\ app.screen = "selection"
    /\ restart_test(From(app, "start_test"))
    /\ UNCHANGED <<driver, script, pc, trace, texts_data>>

\* the Quran levels button of the text selection: show_quran_selection(dialog)
\* closes the dialog, then data_manager.get_surah_list() raises
\* AttributeError (line 142): no dialog, no control and no test
ShowQuranSelection ==
    /\ driver = "app"
    /\ app.screen = "selection"
    /\ app' = [app EXCEPT !.screen = "none", !.handled = "show_quran_selection",
                          !.calls = <<>>]
    /\ UNCHANGED <<text, words, start_time, end_time, session, last, result,
                   driver, script, pc, trace, texts_data>>

\* the restart button of the typing screen
ClickRestart ==
    /\ driver = "app"
    /\ app.screen = "typing"
    /\ app.pending = {}
    /\ \E now \in Clock :
          on_restart(now, [From(app, "restart") EXCEPT
                              !.discarded = [text |-> text,
                                             total_keystrokes |-> total_keystrokes]])
    /\ UNCHANGED <<driver, script, pc, trace, texts_data>>

\* the home button of the typing screen
ClickHome ==
    /\ driver = "app"
    /\ app.screen = "typing"
    /\ app.pending = {}
    /\ show_menu([app EXCEPT !.handled = "home", !.quran = "none"])
    /\ UNCHANGED <<driver, script, pc, trace, texts_data>>

NextScreen ==
    \/ StartTest
    \/ ShowQuranSelection
    \/ KeyPress
    \/ HandleChange
    \/ HandleKeyboard
    \/ ClickRestart
    \/ ClickHome

\* the typing screen and the handlers behind it, from the text selection on
SpecScreen == InitSelection /\ [][NextScreen]_vars

\* ------------------------------------------------------------ properties
\* A step that is a process_keystroke call: no other call touches the session,
\* last or result, and a call that leaves all three as they were is a
\* stuttering step.  last' and result' are then the call's arguments and its
\* return value.
KeystrokeStep == <<session, last, result>>' # <<session, last, result>>
SpaceStep == KeystrokeStep /\ ~last'.is_backspace /\ last'.char = <<" ">>
CharStep == KeystrokeStep /\ ~last'.is_backspace /\ last'.char # <<" ">>
BackspaceStep == KeystrokeStep /\ last'.is_backspace

Accepted == [accepted |-> TRUE, error |-> FALSE]
Rejected == [accepted |-> FALSE, error |-> TRUE]
WasKeystroke == last.op = "keystroke"
WasSpace == WasKeystroke /\ ~last.is_backspace /\ last.char = <<" ">>
WasChar == WasKeystroke /\ ~last.is_backspace /\ last.char # <<" ">>
WasBackspace == WasKeystroke /\ last.is_backspace

\* C1: in every reachable state total_keystrokes is the sum of
\* correct_keystrokes and incorrect_keystrokes, and none of the three is negative.
C1_CountersAddUp ==
    /\ total_keystrokes = correct_keystrokes + incorrect_keystrokes
    /\ total_keystrokes >= 0
    /\ correct_keystrokes >= 0
    /\ incorrect_keystrokes >= 0

\* C1 witness: both kinds of keystroke were counted, a call was rejected, and
\* start() and finish() were both called.
C1_Witness ==
    /\ correct_keystrokes >= 2
    /\ incorrect_keystrokes >= 1
    /\ result = Rejected
    /\ start_time # None
    /\ end_time # None

\* C2: a space is accepted exactly when the buffer equals the current
\* reference word; a rejected space leaves the buffer and the word index
\* alone; and the index never moves past a word the buffer does not equal.
C2_SpaceGate ==
    [][SpaceStep =>
        /\ result'.accepted <=> (current_word_input = get_current_word)
        /\ ~result'.accepted =>
              /\ current_word_input' = current_word_input
              /\ current_word_index' = current_word_index
        /\ (/\ current_word_index < Len(words)
            /\ current_word_input # words[current_word_index + 1])
              => current_word_index' = current_word_index]_vars

\* C2 witness: a space was rejected on a buffer as long as the word but wrong.
C2_Witness ==
    /\ WasSpace
    /\ result = Rejected
    /\ current_word_index < Len(words)
    /\ Len(current_word_input) = Len(words[current_word_index + 1])
    /\ current_word_input # words[current_word_index + 1]

\* C3: a regular character is rejected exactly when the buffer is already as
\* long as the current reference word; otherwise it is appended, matching or
\* not, and total_keystrokes grows by exactly 1.
C3_CharCap ==
    [][CharStep =>
        /\ ~result'.accepted <=> (Len(current_word_input) >= Len(get_current_word))
        /\ result'.accepted =>
              /\ current_word_input' = current_word_input \o last'.char
              /\ total_keystrokes' = total_keystrokes + 1]_vars

\* C3 witness: a character that does not match was accepted and stored.
C3_Witness ==
    /\ WasChar
    /\ last.char # <<>>
    /\ result = [accepted |-> TRUE, error |-> TRUE]
    /\ current_word_input # <<>>
    /\ current_word_input[Len(current_word_input)] = last.char[1]
    /\ get_current_word[Len(current_word_input)] # last.char[1]

\* C4: a process_keystroke call that returns accepted = false changes nothing
\* of the session: counters, buffer, index, completed_words, key_errors.
C4_RejectChangesNothing ==
    [][(KeystrokeStep /\ ~result'.accepted) => UNCHANGED session]_vars

\* C4 witness: a character beyond the word's length was rejected in a session
\* that has counted keystrokes and recorded a key error.
C4_Witness ==
    /\ WasChar
    /\ last.char # <<>>
    /\ result = Rejected
    /\ current_word_index < Len(words)
    /\ Len(current_word_input) = Len(get_current_word)
    /\ key_errors # <<>>

\* C5: a backspace returns {accepted: true, error: false}, removes the last
\* character of a non-empty buffer, leaves an empty buffer empty, and keeps
\* the three counters and key_errors.
C5_Backspace ==
    [][BackspaceStep =>
        /\ result' = Accepted
        /\ current_word_input' =
              IF current_word_input = <<>>
              THEN <<>>
              ELSE SubSeq(current_word_input, 1, Len(current_word_input) - 1)
        /\ UNCHANGED <<counters, key_errors>>]_vars

\* C5 witness: a backspace removed a mistyped character, the only one typed in
\* the current word.
C5_Witness ==
    /\ WasBackspace
    /\ result = Accepted
    /\ current_word_input = <<>>
    /\ incorrect_keystrokes = 1
    /\ total_keystrokes = 1
    /\ key_errors # <<>>

\* C6 (as claimed): in every reachable state current_word_index <= len(words),
\* so words_completed = len(completed_words) never exceeds total_words.
C6_IndexWithinWords ==
    /\ current_word_index <= Len(words)
    /\ Len(completed_words) <= Len(words)

\* C7 (as claimed): once the test is complete, a space or a regular character
\* is rejected and changes nothing of the session.
C7_CompleteRejects ==
    [][(KeystrokeStep /\ is_test_complete /\ ~last'.is_backspace) =>
        /\ ~result'.accepted
        /\ UNCHANGED session]_vars

\* C8: in every reachable state the buffer is no longer than the current
\* reference word.
C8_BufferWithinWord == Len(current_word_input) <= Len(get_current_word)

\* C8 witness: the buffer is as long as the word and a further character was
\* rejected.
C8_Witness ==
    /\ WasChar
    /\ last.char # <<>>
    /\ result = Rejected
    /\ current_word_index < Len(words)
    /\ Len(current_word_input) = Len(get_current_word)
    /\ Len(current_word_input) >= 2

\* C9 (as claimed): completed_words is the sequence of the first
\* current_word_index reference words.
C9_CompletedArePrefix ==
    /\ Len(completed_words) = current_word_index
    /\ \A i \in 1..Len(completed_words) :
          i <= Len(words) /\ completed_words[i] = words[i]

\* C10: current_word_index never decreases, completed_words only grows at its
\* end, and a complete session stays complete.
C10_NoWayBack ==
    [][/\ current_word_index' >= current_word_index
       /\ Len(completed_words') >= Len(completed_words)
       /\ SubSeq(completed_words', 1, Len(completed_words)) = completed_words
       /\ is_test_complete => is_test_complete']_vars

\* C10 witness: a backspace on an empty buffer right after the first word of
\* "a b" was completed (two counted keystrokes: the letter and the space).
C10_Witness ==
    /\ text = <<"a", " ", "b">>
    /\ WasBackspace
    /\ total_keystrokes = 2
    /\ current_word_index = 1
    /\ completed_words = << <<"a">> >>
    /\ current_word_input = <<>>

Abs(x) == IF x >= 0 THEN x ELSE -x
DictKeys(d) == {d[i][1] : i \in 1..Len(d)}

RECURSIVE SumLen(_)
SumLen(ws) == IF ws = <<>> THEN 0 ELSE Len(Head(ws)) + SumLen(Tail(ws))

\* C11 (as claimed): is_test_complete() is true exactly in the states where
\* current_word_index equals len(words).
C11_CompleteIffAtEnd == is_test_complete <=> (current_word_index = Len(words))

\* C12: an accepted space appends the buffer to completed_words, moves to the
\* next word, empties the buffer, adds 1 to total_keystrokes and to
\* correct_keystrokes, keeps incorrect_keystrokes and key_errors, and returns
\* {accepted: true, error: false}.
C12_AcceptedSpace ==
    [][(SpaceStep /\ result'.accepted) =>
        /\ completed_words' = Append(completed_words, current_word_input)
        /\ current_word_index' = current_word_index + 1
        /\ current_word_input' = <<>>
        /\ total_keystrokes' = total_keystrokes + 1
        /\ correct_keystrokes' = correct_keystrokes + 1
        /\ UNCHANGED <<incorrect_keystrokes, key_errors>>
        /\ result' = Accepted]_vars

\* C12 witness: a space completed the first word of a session that had
\* recorded a mistake.
C12_Witness ==
    /\ WasSpace
    /\ result = Accepted
    /\ current_word_index = 1
    /\ Len(words) >= 1
    /\ completed_words = << words[1] >>
    /\ current_word_input = <<>>
    /\ incorrect_keystrokes = 1
    /\ key_errors # <<>>

\* C13: an accepted regular character at position pos returns
\* error = (char # reference[pos]); a match adds 1 to correct_keystrokes and
\* total_keystrokes only; a mismatch adds 1 to incorrect_keystrokes and
\* total_keystrokes and 1 to key_errors[reference[pos]], and to no other key.
C13_AcceptedChar ==
    [][(CharStep /\ result'.accepted) =>
        LET pos == Len(current_word_input)
            expected == get_current_word[pos + 1]
            matched == (last'.char = <<expected>>)
        IN  /\ result'.error = ~matched
            /\ total_keystrokes' = total_keystrokes + 1
            /\ matched =>
                  /\ correct_keystrokes' = correct_keystrokes + 1
                  /\ UNCHANGED <<incorrect_keystrokes, key_errors>>
            /\ ~matched =>
                  /\ incorrect_keystrokes' = incorrect_keystrokes + 1
                  /\ correct_keystrokes' = correct_keystrokes
                  /\ DictGet(key_errors', expected, 0)
                        = DictGet(key_errors, expected, 0) + 1
                  /\ \A k \in (DictKeys(key_errors) \cup DictKeys(key_errors')) \ {expected} :
                        DictGet(key_errors', k, 0) = DictGet(key_errors, k, 0)]_vars

\* C13 witness: "b" was typed where "a" was expected, and the one recorded
\* error is under "a".
C13_Witness ==
    /\ WasChar
    /\ last.char = <<"b">>
    /\ result = [accepted |-> TRUE, error |-> TRUE]
    /\ current_word_input = <<"b">>
    /\ get_current_word[1] = "a"
    /\ key_errors = << <<"a", 1>> >>

\* C14 (as claimed): once finish() has set end_time, no process_keystroke call
\* changes total_keystrokes, correct_keystrokes or incorrect_keystrokes.
C14_NoCountAfterFinish ==
    [][(end_time # None /\ KeystrokeStep) => UNCHANGED counters]_vars

\* C15 (as claimed): start_time is assigned at most once, end_time is assigned
\* at most once, and end_time is never assigned while start_time is unset.
C15_TimestampsSetOnce ==
    [][/\ start_time # None => start_time' = start_time
       /\ end_time # None => end_time' = end_time
       /\ end_time' # end_time => start_time # None]_vars

\* C16 (as claimed): get_duration() is end_time - start_time when both are
\* set and 0 otherwise, and is never negative.
C16_DurationNonNegative ==
    /\ get_duration =
          IF start_time # None /\ end_time # None
          THEN end_time[1] - start_time[1]
          ELSE 0
    /\ get_duration >= 0

\* C17: calculate_wpm() is 0 when the duration is zero or negative or a
\* timestamp is missing; otherwise it is (correct_keystrokes / 5) /
\* (duration / 60) to the nearest tenth, whatever incorrect_keystrokes is.
C17_Wpm ==
    LET d == get_duration
        w == calculate_wpm
    IN  /\ (start_time = None \/ end_time = None) => w = 0
        /\ d <= 0 => w = 0
        /\ d > 0 => 2 * Abs(w * 5 * d - 10 * 60 * correct_keystrokes) <= 5 * d

\* C17 witness: a finished session of positive duration with correct and
\* incorrect keystrokes.
C17_Witness ==
    /\ get_duration = 1
    /\ correct_keystrokes = 2
    /\ incorrect_keystrokes = 1
    /\ calculate_wpm = 240

\* C18: calculate_accuracy() is 100.0 when total_keystrokes is 0, otherwise
\* correct_keystrokes / total_keystrokes * 100 to the nearest tenth, and it
\* lies between 0 and 100.
C18_Accuracy ==
    LET a == calculate_accuracy
    IN  /\ total_keystrokes = 0 => a = 1000
        /\ total_keystrokes > 0 =>
              2 * Abs(a * total_keystrokes - 10 * 100 * correct_keystrokes)
                 <= total_keystrokes
        /\ a >= 0
        /\ a <= 1000

\* C18 witness: two correct keystrokes of three give 66.7.
C18_Witness ==
    /\ total_keystrokes = 3
    /\ correct_keystrokes = 2
    /\ calculate_accuracy = 667

\* C19: the three counters and every count of key_errors never decrease.
C19_LifetimeCounts ==
    [][/\ total_keystrokes' >= total_keystrokes
       /\ correct_keystrokes' >= correct_keystrokes
       /\ incorrect_keystrokes' >= incorrect_keystrokes
       /\ \A k \in DictKeys(key_errors) :
             DictGet(key_errors', k, 0) >= DictGet(key_errors, k, 0)]_vars

\* C19 witness: the first word is typed in full and right, none is completed,
\* and yet one mistake is counted: it was removed by backspace and retyped.
C19_Witness ==
    /\ current_word_index = 0
    /\ Len(words) >= 1
    /\ current_word_input = words[1]
    /\ incorrect_keystrokes = 1
    /\ DictGet(key_errors, words[1][1], 0) = 1
    /\ WasChar
    /\ result = Accepted

\* C20 (as claimed): when the text has just been completed,
\* correct_keystrokes is at most the number of characters of the reference
\* words plus the number of reference words.
C20_CorrectWithinText ==
    (is_test_complete /\ current_word_index = Len(words)) =>
        correct_keystrokes <= SumLen(words) + Len(words)

\* n / d rounded to a whole number is r: r is a nearest whole number, and the
\* even one when two are equally near.
IsRounded(r, n, d) ==
    /\ 2 * Abs(d * r - n) <= d
    /\ 2 * Abs(d * r - n) = d => r % 2 = 0

AcceptedError == [accepted |-> TRUE, error |-> TRUE]

\* C21: calculate_scores() returns speed_score = min(100, round(wpm)),
\* accuracy_score = round(accuracy) and overall_score = round of the mean of
\* the two; the three scores lie in 0..100 in every reachable state; and the
\* three keystroke counts it reports are the session's counters (it is a
\* function of the state and assigns nothing).
C21_Scores ==
    LET s == calculate_scores
    IN  /\ s.wpm = calculate_wpm
        /\ s.accuracy = calculate_accuracy
        /\ IF 10 * 100 <= s.wpm
           THEN s.speed_score = 100
           ELSE IsRounded(s.speed_score, s.wpm, 10)
        /\ IsRounded(s.accuracy_score, s.accuracy, 10)
        /\ IsRounded(s.overall_score, s.speed_score + s.accuracy_score, 2)
        /\ s.speed_score \in 0..100
        /\ s.accuracy_score \in 0..100
        /\ s.overall_score \in 0..100
        /\ s.total_keystrokes = total_keystrokes
        /\ s.correct_keystrokes = correct_keystrokes
        /\ s.incorrect_keystrokes = incorrect_keystrokes

\* C21 witness: four words were typed in one second, 144 words per minute,
\* and the speed score is capped at 100.
C21_Witness ==
    /\ text = FourWords.text
    /\ pc = Len(script)
    /\ calculate_wpm = 1440
    /\ calculate_scores.speed_score = 100
    /\ calculate_scores.overall_score = 100

\* C22: get_top_missed_keys() returns at most 3 items of key_errors, by
\* count descending; no item left out has a higher count than an item
\* returned; items of equal count keep the order in which their characters
\* were first mistyped; {'e': 3, 'a': 5, 't': 1, 'o': 2} gives
\* [('a', 5), ('e', 3), ('o', 2)].
C22_TopMissedKeys ==
    LET top == get_top_missed_keys
        n == Len(top)
        place(item) == DictIndex(key_errors, item[1], 1)
        left_out == {j \in 1..Len(key_errors) :
                        \A i \in 1..n : top[i] # key_errors[j]}
    IN  /\ n = Min(3, Len(key_errors))
        /\ \A i \in 1..n : place(top[i]) > 0 /\ key_errors[place(top[i])] = top[i]
        /\ \A i, j \in 1..n : i < j =>
              /\ top[i][2] >= top[j][2]
              /\ top[i][1] # top[j][1]
              /\ top[i][2] = top[j][2] => place(top[i]) < place(top[j])
        /\ \A j \in left_out : \A i \in 1..n :
              /\ top[i][2] >= key_errors[j][2]
              /\ top[i][2] = key_errors[j][2] => place(top[i]) < j
        /\ key_errors = <<(<<"e", 3>>), (<<"a", 5>>), (<<"t", 1>>), (<<"o", 2>>)>>
              => top = <<(<<"a", 5>>), (<<"e", 3>>), (<<"o", 2>>)>>

\* C22 witness: the dictionary of the example, one key more than is returned
C22_Witness ==
    /\ key_errors = <<(<<"e", 3>>), (<<"a", 5>>), (<<"t", 1>>), (<<"o", 2>>)>>
    /\ incorrect_keystrokes = 11
    /\ Len(get_top_missed_keys) = 3

\* The fields of get_current_stats() that do not read the clock.
StableStats(s) ==
    <<s.words_completed, s.current_word, s.current_word_input, s.total_words,
      s.errors, s.current_accuracy>>

\* C23 (as claimed): across any step that is not a process_keystroke call,
\* whatever the clock reads before and after it, get_current_stats() returns
\* the same words_completed, current_word, current_word_input, total_words,
\* errors and current_accuracy.
C23_SameWithoutKeystroke ==
    [][~KeystrokeStep =>
          \A t1 \in Clock : \A t2 \in Clock' :
              StableStats(get_current_stats(t1)) = StableStats(get_current_stats(t2))']_vars

\* C24: get_current_stats() always takes current_word, current_word_input,
\* words_completed and total_words from the session; while start() has not
\* been called it returns elapsed_time 0, current_wpm 0, current_accuracy
\* 100.0 and errors 0; once started, errors is incorrect_keystrokes and
\* current_accuracy is calculate_accuracy().
C24_StatsFields ==
    \A now \in Clock :
        LET s == get_current_stats(now)
        IN  /\ s.current_word = get_current_word
            /\ s.current_word_input = current_word_input
            /\ s.words_completed = Len(completed_words)
            /\ s.total_words = Len(words)
            /\ start_time = None =>
                  /\ s.elapsed_time = 0
                  /\ s.current_wpm = 0
                  /\ s.current_accuracy = 1000
                  /\ s.errors = 0
            /\ start_time # None =>
                  /\ s.errors = incorrect_keystrokes
                  /\ s.current_accuracy = calculate_accuracy

\* C24 witness: a word is completed and a mistake is counted, and start()
\* has not been called: the errors reported are 0, the mistakes counted 1.
C24_Witness ==
    /\ start_time = None
    /\ Len(completed_words) = 1
    /\ incorrect_keystrokes = 1
    /\ get_current_stats(MaxClock).errors = 0
    /\ get_current_stats(MaxClock).words_completed = 1

\* the scripted session on "cat dog"
InCatDog == text = CatDog.text /\ script = CatDog.events

\* C25: on "cat dog" with the events c, a, t, space, d, x, backspace, o, g,
\* space: after four events one word is completed and the buffer is empty;
\* after the mismatch (six events) incorrect_keystrokes is 1 and
\* key_errors['o'] is 1; after all ten the session is complete with 9
\* keystrokes counted, 8 correct and 1 incorrect, and the accuracy is 88.9.
C25_CatDog ==
    InCatDog =>
        /\ pc = 4 =>
              /\ get_current_stats(MaxClock).words_completed = 1
              /\ current_word_input = <<>>
        /\ pc = 6 =>
              /\ incorrect_keystrokes = 1
              /\ DictGet(key_errors, "o", 0) = 1
        /\ pc = 10 =>
              /\ is_test_complete
              /\ total_keystrokes = 9
              /\ correct_keystrokes = 8
              /\ incorrect_keystrokes = 1
              /\ calculate_accuracy = 889

\* C25 witness: the end of the script, both words completed
C25_Witness ==
    /\ InCatDog
    /\ pc = 10
    /\ completed_words = <<(<<"c", "a", "t">>), (<<"d", "o", "g">>)>>
    /\ key_errors = <<(<<"o", 1>>)>>

\* C26 (as claimed): on "cat dog", after c, a, t, space, d, x, backspace the
\* buffer of the current word is empty.
C26_BufferEmpty ==
    (InCatDog /\ pc = 7) => current_word_input = <<>>

\* C26 (amended): on "cat dog", after c, a, t, space, d, x, backspace the
\* buffer of the current word is "d": the backspace removed the mistyped x
\* only, and the mistake stays counted.
C26_BufferKeepsD ==
    (InCatDog /\ pc = 7) =>
        /\ current_word_input = <<"d">>
        /\ incorrect_keystrokes = 1
        /\ total_keystrokes = 6

\* C26 witness: the backspace of the script has just been processed
C26_Witness ==
    /\ InCatDog
    /\ pc = 7
    /\ WasBackspace
    /\ result = Accepted

\* C27: a text that is empty or all whitespace has no reference words, and
\* before any keystroke its session is complete with words_completed =
\* total_words = 0; no reference word is empty or holds whitespace.
C27_EmptyText ==
    /\ (\A i \in 1..Len(text) : text[i] = " ") =>
          /\ words = <<>>
          /\ last = NoCall =>
                /\ is_test_complete
                /\ get_current_stats(MaxClock).words_completed = 0
                /\ get_current_stats(MaxClock).total_words = 0
    /\ \A i \in 1..Len(words) :
          /\ words[i] # <<>>
          /\ \A j \in 1..Len(words[i]) : words[i][j] # " "

\* C27 witness: a started session on a text of whitespace only, no keystroke yet
C27_Witness ==
    /\ Len(text) >= 2
    /\ \A i \in 1..Len(text) : text[i] = " "
    /\ last = NoCall
    /\ start_time # None
    /\ is_test_complete

\* process_keystroke(e.char, e.is_backspace) returns
Returns(e) == process_keystroke(e.char, e.is_backspace)

\* C28: in every reachable state every keystroke event is processed to a
\* return, what a call returned is one of accepted without error, accepted
\* with error and rejected with error (a rejection always carries the error
\* flag), and the word and the character that process_keystroke reads are
\* within range.
C28_ThreeResults ==
    /\ \A e \in KeystrokeEvents : ENABLED Returns(e)
    /\ WasKeystroke =>
          /\ result \in {Accepted, AcceptedError, Rejected}
          /\ ~result.accepted => result.error
    /\ current_word_index < Len(words) => current_word_index + 1 \in DOMAIN words
    /\ Len(current_word_input) < Len(get_current_word) =>
          Len(current_word_input) + 1 \in DOMAIN get_current_word

\* C28 witness: after completion and after finish() a character was rejected
C28_Witness ==
    /\ Len(words) >= 1
    /\ is_test_complete
    /\ end_time # None
    /\ WasChar
    /\ result = Rejected

\* C29 (as claimed): a process_keystroke call made before start() changes no
\* counter, buffer or index of the session.
C29_NoOpBeforeStart ==
    [][(KeystrokeStep /\ start_time = None) => UNCHANGED session]_vars

\* C30: once the recovering typist has taken over, in whatever state the
\* keystrokes before have left the session, the test is eventually complete.
C30_TypistCompletes ==
    (driver = "typist") ~> is_test_complete

\* C30 witness: the typist took over after two mistakes on a text of two
\* words and completed it.
C30_Witness ==
    /\ driver = "typist"
    /\ Len(words) = 2
    /\ is_test_complete
    /\ incorrect_keystrokes >= 2
    /\ total_keystrokes >= 6

RECURSIVE SumCounts(_)
SumCounts(d) == IF d = <<>> THEN 0 ELSE Head(d)[2] + SumCounts(Tail(d))

\* the characters of the reference words
WordChars == UNION {{words[i][j] : j \in 1..Len(words[i])} : i \in 1..Len(words)}

\* the length of the longest prefix of s that is a prefix of w
MatchLen(s, w) ==
    Cardinality({k \in 1..Min(Len(s), Len(w)) : \A j \in 1..k : s[j] = w[j]})

\* C37: in every reachable state the counts of key_errors add up to
\* incorrect_keystrokes, every count is at least 1, no key is recorded
\* twice, and every key is a character of some reference word.
C37_KeyErrors ==
    /\ SumCounts(key_errors) = incorrect_keystrokes
    /\ \A i \in 1..Len(key_errors) :
          /\ key_errors[i][2] >= 1
          /\ key_errors[i][1] \in WordChars
          /\ \A j \in 1..Len(key_errors) : key_errors[i][1] = key_errors[j][1] => i = j

\* C37 witness: three mistakes on two different expected characters
C37_Witness ==
    /\ Len(key_errors) = 2
    /\ incorrect_keystrokes = 3
    /\ SumCounts(key_errors) = 3

\* C38: in every reachable state correct_keystrokes is at least the number
\* of characters of the completed words, plus the number of completed
\* words, plus the length of the longest prefix of the buffer that matches
\* the current word; a complete session has at least one correct keystroke
\* per reference character and per reference word.
C38_CorrectAtLeastTyped ==
    /\ correct_keystrokes >=
          SumLen(completed_words) + Len(completed_words)
              + MatchLen(current_word_input, get_current_word)
    /\ is_test_complete => correct_keystrokes >= SumLen(words) + Len(words)

\* C38 witness: a word was completed after a mistake and the bound is met
\* with equality
C38_Witness ==
    /\ Len(words) >= 1
    /\ is_test_complete
    /\ incorrect_keystrokes >= 1
    /\ correct_keystrokes = SumLen(words) + Len(words)

\* C39 (as claimed): an accepted event that is neither a backspace nor a
\* space makes the buffer one character longer and total_keystrokes one
\* higher, and an event that leaves the buffer as it was changes none of
\* total_keystrokes, incorrect_keystrokes and key_errors.
C39_AcceptedCharGrowsBuffer ==
    [][/\ (CharStep /\ result'.accepted) =>
             /\ Len(current_word_input') = Len(current_word_input) + 1
             /\ total_keystrokes' = total_keystrokes + 1
       /\ (KeystrokeStep /\ current_word_input' = current_word_input
              /\ current_word_index' = current_word_index) =>
             UNCHANGED <<total_keystrokes, incorrect_keystrokes, key_errors>>]_vars

\* C31: in the application every test has received start() once the typing
\* screen shows it and before any keystroke reaches it; the handler that
\* constructs a test calls start() on it and nothing else, whichever handler
\* it is (start_test, the restart event, restart_test from the results key).
C31_StartBeforeKeystroke ==
    /\ (app.screen = "typing" \/ app.keyboard = "results") => start_time # None
    /\ WasKeystroke => start_time # None
    /\ (app.screen = "typing" /\ app.handled = app.origin) =>
          /\ app.calls = <<"TypingTest", "start">>
          /\ last = NoCall
          /\ total_keystrokes = 0

\* C31 witness: a keystroke was accepted by the started test that
\* restart_test() constructed.
C31_Witness ==
    /\ app.origin = "results_key"
    /\ app.handled = "change"
    /\ WasKeystroke
    /\ result = Accepted
    /\ total_keystrokes >= 1
    /\ start_time # None

\* C32: in the application a test is finished at most once and only when it
\* is complete, its scores are calculated and its result saved exactly once,
\* after finish() and in the handler that called finish(), and no keystroke
\* reaches it after finish().
C32_FinishOnce ==
    /\ app.finished <= 1
    /\ app.finished = 1 => (is_test_complete /\ end_time # None)
    /\ end_time # None => app.finished = 1
    /\ app.scored = app.finished
    /\ app.saved = app.finished
    /\ ~app.late
    /\ app.keyboard = "results" => app.finished = 1
    /\ (\E i \in 1..Len(app.calls) : app.calls[i] \in {"finish", "calculate_scores",
                                                        "save_result"}) =>
          app.calls = <<"process_keystroke", "get_current_stats", "finish",
                        "calculate_scores", "save_result">>

\* C32 witness: a test with a mistake is finished, scored and saved.
C32_Witness ==
    /\ app.keyboard = "results"
    /\ app.handled = "change"
    /\ app.finished = 1
    /\ app.scored = 1
    /\ app.saved = 1
    /\ incorrect_keystrokes >= 1
    /\ is_test_complete
    /\ end_time # None

\* C33: after the restart handler the test is a newly constructed one on the
\* text of the test it replaced: counters 0, buffer, completed_words and
\* key_errors empty, word index 0, no keystroke seen, started and not
\* finished.
C33_RestartFresh ==
    app.handled = "restart" =>
        /\ text = app.discarded.text
        /\ words = Split(text)
        /\ counters = <<0, 0, 0>>
        /\ current_word_input = <<>>
        /\ completed_words = <<>>
        /\ current_word_index = 0
        /\ key_errors = <<>>
        /\ last = NoCall
        /\ start_time # None
        /\ end_time = None
        /\ app.calls = <<"TypingTest", "start">>
        /\ app.finished = 0

\* C33 witness: the restart replaced a test that had counted keystrokes.
C33_Witness ==
    /\ app.handled = "restart"
    /\ app.discarded.total_keystrokes >= 2
    /\ total_keystrokes = 0
    /\ start_time # None

\* C36 (as claimed): the ids of the texts stored for the language are
\* pairwise distinct.
C36_IdsDistinct ==
    \A d1, d2 \in Difficulties :
        \A i \in 1..Len(texts_data[d1]) : \A j \in 1..Len(texts_data[d2]) :
            texts_data[d1][i].id = texts_data[d2][j].id => (d1 = d2 /\ i = j)

\* C40: the second of two sessions on the same text, after the same
\* keystroke events, has the counters, buffer, index, completed_words and
\* key_errors of the first and was returned the same result, whatever the
\* clock read and however start(), finish() and get_current_stats() were
\* called on the two.
C40_SameEventsSameState ==
    (driver = "script" /\ trace # <<>> /\ pc >= 1) =>
        /\ pc <= Len(trace)
        /\ <<session, result>> = trace[pc]

\* C40 witness: the second session, started and finished, is at the end of a
\* script with a mistake and is where the first session was.
C40_Witness ==
    /\ driver = "script"
    /\ pc = Len(script)
    /\ pc = MaxScript
    /\ incorrect_keystrokes >= 1
    /\ correct_keystrokes >= 1
    /\ start_time # None
    /\ end_time # None
    /\ <<session, result>> = trace[pc]
====
